---- MODULE Spec2Model ----
(***************************************************************************)
(* Model of convert_html_to_md.py: the CriteriaHTMLParser event handlers   *)
(* (handle_starttag / handle_endtag / handle_data / get_content), the      *)
(* per-file entry point parse_html_file and the driver main().             *)
(*                                                                         *)
(* Text is a sequence of one-character strings, so that concatenation,     *)
(* strip, split and the regular-expression substitutions are computed      *)
(* character by character, as Python computes them.                        *)
(***************************************************************************)
EXTENDS Integers, Sequences, FiniteSets, TLC

VARIABLES
    parser,         \* the CriteriaHTMLParser instance (its fields, as a record)
    rawdata,        \* tokens fed to the parser and not yet dispatched
    log,            \* tokens dispatched so far, each with len(content) before it
    pc,             \* position of main(): "idle", "loop", "join", "norm", "done"
    idx,            \* index into html_files of the next file of the for loop
    disk,           \* content of input_dir: file name -> [exists, html]
    all_content,    \* main()'s list of text pieces
    final_content,  \* main()'s joined text
    output_file     \* what was written to existing-evaluation-criteria.md

vars == <<parser, rawdata, log, pc, idx, disk, all_content, final_content, output_file>>

parserVars == <<parser, rawdata, log>>
mainVars == <<pc, idx, disk, all_content, final_content, output_file>>

(***************************************************************************)
(* Bounds of the model.                                                    *)
(***************************************************************************)
\* Number of tokens the parser is handed beyond a scripted document.
MaxEvents == 3
\* Number of entries of html_files the driver model iterates over.
NumFiles == 3
\* Longest joined text enumerated for the newline normalisation.
MaxLen == 6

(***************************************************************************)
(* Python values and string helpers.                                       *)
(***************************************************************************)
None == "None"

NL == "\n"
SP == " "
TAB == "\t"

\* Characters that str.strip() removes and that \s matches.
Whitespace == {SP, NL, TAB}

RECURSIVE Flatten(_)
\* ''.join(list)
Flatten(list) ==
    IF list = <<>> THEN <<>> ELSE Head(list) \o Flatten(Tail(list))

RECURSIVE lstrip(_)
lstrip(s) ==
    IF s # <<>> /\ Head(s) \in Whitespace THEN lstrip(Tail(s)) ELSE s

RECURSIVE rstrip(_)
rstrip(s) ==
    IF s # <<>> /\ s[Len(s)] \in Whitespace
    THEN rstrip(SubSeq(s, 1, Len(s) - 1))
    ELSE s

\* str.strip()
strip(s) == rstrip(lstrip(s))

\* str.replace(old, new) for a one-character old
replace(s, old, new) ==
    [k \in 1..Len(s) |-> IF s[k] = old THEN new ELSE s[k]]

RECURSIVE re_sub_spaces(_)
\* re.sub(r'\s+', ' ', s): every maximal run of whitespace becomes one space
re_sub_spaces(s) ==
    IF s = <<>> THEN <<>>
    ELSE IF Head(s) \in Whitespace
         THEN <<SP>> \o re_sub_spaces(lstrip(s))
         ELSE <<Head(s)>> \o re_sub_spaces(Tail(s))

RECURSIVE split(_, _)
\* str.split(sep) for a one-character sep: always at least one piece
split(s, sep) ==
    IF \A k \in 1..Len(s) : s[k] # sep THEN <<s>>
    ELSE LET k == CHOOSE j \in 1..Len(s) :
                      s[j] = sep /\ \A m \in 1..(j - 1) : s[m] # sep
         IN <<SubSeq(s, 1, k - 1)>> \o split(SubSeq(s, k + 1, Len(s)), sep)

\* sub in s
Contains(s, sub) ==
    \E k \in 0..(Len(s) - Len(sub)) : SubSeq(s, k + 1, k + Len(sub)) = sub

RECURSIVE Repeat(_, _)
\* s * n (the empty string when n <= 0)
Repeat(s, n) == IF n <= 0 THEN <<>> ELSE s \o Repeat(s, n - 1)

\* dict(attrs).get(key, default): the last pair with that key wins
DictGet(attrs, key, default) ==
    LET hits == {k \in 1..Len(attrs) : attrs[k][1] = key}
    IN IF hits = {} THEN default
       ELSE attrs[CHOOSE k \in hits : \A m \in hits : m <= k][2]

(***************************************************************************)
(* String literals of the source.                                          *)
(***************************************************************************)
STYLE == "style"
CIRCLE == <<"c", "i", "r", "c", "l", "e">>
FONT_SMALL == <<"f", "o", "n", "t", "-", "s", "i", "z", "e", ":", "0", ".", "8", "e", "m">>
OPACITY_SMALL == <<"o", "p", "a", "c", "i", "t", "y", ":", "0", ".", "8">>

H2_PREFIX == <<"#", "#", SP>>
H3_PREFIX == <<"#", "#", "#", SP>>
BOLD == <<"*", "*">>
QUOTE_PREFIX == <<">", SP>>
SMALL_OPEN == <<SP, "*", "(">>
SMALL_CLOSE == <<")", "*">>
NESTED_BULLET == <<SP, SP, "-", SP>>
TOP_BULLET == <<"-", SP>>
INDENT == <<SP, SP>>
SEPARATOR == <<NL, "-", "-", "-", NL, NL>>

(***************************************************************************)
(* CriteriaHTMLParser.                                                     *)
(***************************************************************************)
\* __init__
CriteriaHTMLParser ==
    [content |-> <<>>,
     current_tag |-> None,
     in_header |-> FALSE,
     in_title |-> FALSE,
     in_strong |-> FALSE,
     in_blockquote |-> FALSE,
     in_list |-> FALSE,
     list_level |-> 0,
     small_text_level |-> 0]

\* Variant: the fragment is inserted at the front of the list.
append_front(self, fragment) ==
    [self EXCEPT !.content = <<fragment>> \o @]

append(self, fragment) ==
    [self EXCEPT !.content = Append(@, fragment)]

li_prefix(style) ==
    IF Contains(style, CIRCLE) THEN NESTED_BULLET ELSE TOP_BULLET

\* Variant: the indentation counts the list's own level too.
li_indent_full_depth(list_level) == Repeat(INDENT, list_level)

li_indent(list_level) == Repeat(INDENT, list_level - 1)

is_small_style(style) ==
    Contains(style, FONT_SMALL) \/ Contains(style, OPACITY_SMALL)

handle_starttag(self, tag, attrs) ==
    LET s == [self EXCEPT !.current_tag = tag]
        style == DictGet(attrs, STYLE, <<>>)
    IN CASE tag = "h1" -> [s EXCEPT !.in_header = TRUE]
         [] tag = "h3" -> s
         [] tag = "strong" -> [s EXCEPT !.in_strong = TRUE]
         [] tag = "blockquote" -> [s EXCEPT !.in_blockquote = TRUE]
         [] tag = "ul" -> [s EXCEPT !.list_level = @ + 1, !.in_list = TRUE]
         [] tag = "li" -> append(s, li_indent(s.list_level) \o li_prefix(style))
         [] tag = "span" ->
                IF is_small_style(style)
                THEN [s EXCEPT !.small_text_level = @ + 1]
                ELSE s
         [] OTHER -> s

\* Variant: every ul close appends the newline, nested or not.
ul_close_always_newline(self) ==
    LET s == [self EXCEPT !.list_level = @ - 1]
    IN append(IF s.list_level = 0 THEN [s EXCEPT !.in_list = FALSE] ELSE s, <<NL>>)

ul_close(self) ==
    LET s == [self EXCEPT !.list_level = @ - 1]
    IN IF s.list_level = 0
       THEN append([s EXCEPT !.in_list = FALSE], <<NL>>)
       ELSE s

\* Variant: a span close leaves small_text_level alone.
span_close_keep(self) == self

span_close(self) ==
    IF self.small_text_level > 0
    THEN [self EXCEPT !.small_text_level = @ - 1]
    ELSE self

h1_close(self) == append([self EXCEPT !.in_header = FALSE], <<NL, NL>>)

\* Variant: the h3 close is gated on in_header, like the h1 state.
h3_close_gated(self) ==
    IF self.in_header THEN append(self, <<NL, NL>>) ELSE self

h3_close(self) == append(self, <<NL, NL>>)

\* Variant: the p close appends its newline inside a blockquote too.
handle_endtag_p_unguarded(self, tag) ==
    LET s == CASE tag = "h1" -> h1_close(self)
               [] tag = "h3" -> h3_close(self)
               [] tag = "strong" -> [self EXCEPT !.in_strong = FALSE]
               [] tag = "blockquote" ->
                      append([self EXCEPT !.in_blockquote = FALSE], <<NL>>)
               [] tag = "ul" -> ul_close(self)
               [] tag = "li" -> append(self, <<NL>>)
               [] tag = "span" -> span_close(self)
               [] tag = "p" -> append(self, <<NL>>)
               [] OTHER -> self
    IN [s EXCEPT !.current_tag = None]

\* Variant: current_tag is not cleared after a close tag.
handle_endtag_keep_tag(self, tag) ==
    LET s == CASE tag = "h1" -> h1_close(self)
               [] tag = "h3" -> h3_close(self)
               [] tag = "strong" -> [self EXCEPT !.in_strong = FALSE]
               [] tag = "blockquote" ->
                      append([self EXCEPT !.in_blockquote = FALSE], <<NL>>)
               [] tag = "ul" -> ul_close(self)
               [] tag = "li" -> append(self, <<NL>>)
               [] tag = "span" -> span_close(self)
               [] tag = "p" ->
                      IF ~self.in_blockquote THEN append(self, <<NL>>) ELSE self
               [] OTHER -> self
    IN s

handle_endtag(self, tag) ==
    LET s == CASE tag = "h1" -> h1_close(self)
               [] tag = "h3" -> h3_close(self)
               [] tag = "strong" -> [self EXCEPT !.in_strong = FALSE]
               [] tag = "blockquote" ->
                      append([self EXCEPT !.in_blockquote = FALSE], <<NL>>)
               [] tag = "ul" -> ul_close(self)
               [] tag = "li" -> append(self, <<NL>>)
               [] tag = "span" -> span_close(self)
               [] tag = "p" ->
                      IF ~self.in_blockquote THEN append(self, <<NL>>) ELSE self
               [] OTHER -> self
    IN [s EXCEPT !.current_tag = None]

\* Variant: newlines become spaces but whitespace runs are kept.
clean_keep_runs(data) == replace(data, NL, SP)

\* the "Clean up the text" step of handle_data
clean(data) == re_sub_spaces(replace(data, NL, SP))

RECURSIVE quote_lines(_, _)
\* the for loop of the blockquote branch
quote_lines(self, lines) ==
    IF lines = <<>> THEN self
    ELSE quote_lines(
             IF strip(Head(lines)) # <<>>
             THEN append(self, QUOTE_PREFIX \o strip(Head(lines)) \o <<NL>>)
             ELSE self,
             Tail(lines))

\* Variant: the blockquote branch is tested before the strong branch.
format_data_quote_first(self, data) ==
    IF self.in_header /\ self.current_tag = "h1"
    THEN append(self, H2_PREFIX \o data)
    ELSE IF self.current_tag = "h3"
    THEN append(self, H3_PREFIX \o data)
    ELSE IF self.in_blockquote
    THEN quote_lines(self, split(data, NL))
    ELSE IF self.in_strong
    THEN append(self, BOLD \o data \o BOLD)
    ELSE IF self.small_text_level > 0
    THEN append(self, SMALL_OPEN \o data \o SMALL_CLOSE)
    ELSE IF data # <<>> THEN append(self, data) ELSE self

\* the if/elif chain of handle_data, on the cleaned text
format_data(self, data) ==
    IF self.in_header /\ self.current_tag = "h1"
    THEN append(self, H2_PREFIX \o data)
    ELSE IF self.current_tag = "h3"
    THEN append(self, H3_PREFIX \o data)
    ELSE IF self.in_strong
    THEN append(self, BOLD \o data \o BOLD)
    ELSE IF self.in_blockquote
    THEN quote_lines(self, split(data, NL))
    ELSE IF self.small_text_level > 0
    THEN append(self, SMALL_OPEN \o data \o SMALL_CLOSE)
    ELSE IF data # <<>> THEN append(self, data) ELSE self

\* Variant: no early return for text that is empty after strip().
handle_data_no_return(self, data) == format_data(self, clean(strip(data)))

handle_data(self, data) ==
    IF strip(data) = <<>> THEN self
    ELSE format_data(self, clean(strip(data)))

get_content(self) == Flatten(self.content)

(***************************************************************************)
(* Tokens: what HTMLParser.feed hands to the three handlers.               *)
(***************************************************************************)
StartTag(tag, attrs) == [kind |-> "start", tag |-> tag, attrs |-> attrs, data |-> <<>>]
EndTag(tag) == [kind |-> "end", tag |-> tag, attrs |-> <<>>, data |-> <<>>]
Data(data) == [kind |-> "data", tag |-> None, attrs |-> <<>>, data |-> data]

dispatch(self, tok) ==
    CASE tok.kind = "start" -> handle_starttag(self, tok.tag, tok.attrs)
      [] tok.kind = "end" -> handle_endtag(self, tok.tag)
      [] OTHER -> handle_data(self, tok.data)

Tags == {"h1", "h3", "strong", "blockquote", "ul", "li", "span", "p", "div"}

StyleCircle == <<"l", "i", "s", "t", "-", "s", "t", "y", "l", "e", ":"
                >> \o CIRCLE
StyleFont == FONT_SMALL \o <<";">>
StyleOpacity == OPACITY_SMALL
StylePlain == <<"c", "o", "l", "o", "r", ":", "r", "e", "d">>

Style(s) == << <<STYLE, s>> >>

\* Open-tag tokens: every tag bare, li and span also with the styles they read.
StartTokens ==
    {StartTag(t, <<>>) : t \in Tags}
    \cup {StartTag("li", Style(StyleCircle)),
          StartTag("span", Style(StyleFont)),
          StartTag("span", Style(StyleOpacity)),
          StartTag("span", Style(StylePlain))}

EndTokens == {EndTag(t) : t \in Tags}

TextBlank == <<NL, SP>>
TextAB == <<"a", NL, "b">>
TextSee == <<"s", "e", "e">>
TextNote == <<"n", "o", "t", "e">>
TextRagged == <<SP, "x", SP, TAB, NL, SP, "y", NL>>

Texts == {TextBlank, TextAB, TextSee, TextNote, TextRagged}

DataTokens == {Data(t) : t \in Texts}

\* Scripted documents longer than MaxEvents: plain text, a span, its text,
\* the span's close, and text after it.
SpanDoc(style) ==
    <<Data(TextSee), StartTag("span", Style(style)), Data(TextNote),
      EndTag("span"), Data(TextSee)>>

\* A blockquote holding a strong element and then a small span.
QuoteDoc ==
    <<StartTag("blockquote", <<>>), StartTag("strong", <<>>), Data(TextSee),
      EndTag("strong"), StartTag("span", Style(StyleOpacity)), Data(TextNote)>>

\* An h3 element opened, filled and closed while an h1 is still open.
H3Doc ==
    <<StartTag("h1", <<>>), StartTag("h3", <<>>), Data(TextRagged), EndTag("h3")>>

\* A list with one item that holds a nested list of one circle item.
ListDoc ==
    <<StartTag("ul", <<>>), StartTag("li", <<>>), Data(TextSee),
      StartTag("ul", <<>>), StartTag("li", Style(StyleCircle)), Data(TextNote),
      EndTag("li"), EndTag("ul"), EndTag("li"), EndTag("ul")>>

Docs == {<<>>, SpanDoc(StyleOpacity), SpanDoc(StyleFont), SpanDoc(StylePlain),
         QuoteDoc, H3Doc, ListDoc}

(***************************************************************************)
(* Parser steps.  A token is the head of rawdata when a document was fed,  *)
(* and any token (up to MaxEvents of them) otherwise.                      *)
(***************************************************************************)
Offered(tok) ==
    IF rawdata # <<>> THEN tok = Head(rawdata) ELSE Len(log) < MaxEvents

Consume(tok) ==
    /\ rawdata' = IF rawdata # <<>> THEN Tail(rawdata) ELSE rawdata
    /\ log' = Append(log, [tok |-> tok, at |-> Len(parser.content)])
    /\ UNCHANGED mainVars

StartTagStep ==
    \E tok \in StartTokens :
        /\ Offered(tok)
        /\ parser' = handle_starttag(parser, tok.tag, tok.attrs)
        /\ Consume(tok)

EndTagStep ==
    \E tok \in EndTokens :
        /\ Offered(tok)
        /\ parser' = handle_endtag(parser, tok.tag)
        /\ Consume(tok)

DataStep ==
    \E tok \in DataTokens :
        /\ Offered(tok)
        /\ parser' = handle_data(parser, tok.data)
        /\ Consume(tok)

MainIdle ==
    /\ pc = "idle"
    /\ idx = 1
    /\ disk = <<>>
    /\ all_content = <<>>
    /\ final_content = <<>>
    /\ output_file = None

Init ==
    /\ parser = CriteriaHTMLParser
    /\ rawdata \in Docs
    /\ log = <<>>
    /\ MainIdle

Next == StartTagStep \/ EndTagStep \/ DataStep

Spec == Init /\ [][Next]_vars

(***************************************************************************)
(* parse_html_file and main().                                             *)
(***************************************************************************)
RECURSIVE feed(_, _)
\* HTMLParser.feed: the handlers are called token by token, in document order
feed(self, tokens) ==
    IF tokens = <<>> THEN self
    ELSE feed(dispatch(self, Head(tokens)), Tail(tokens))

\* A fresh parser per file; disk[filepath] is what f.read() tokenises to.
\* Variant: the parser left by the previous file is used again.
reused_parser == parser

\* parser = CriteriaHTMLParser()
new_parser == CriteriaHTMLParser

parse_html_file(filepath) ==
    get_content(feed(new_parser, disk[filepath].html))

\* html_files, named by their number i of 'ch3_01_0{i}.html'
html_files == [i \in 1..NumFiles |-> i]

\* A file of input_dir holding the tokens html, and a name with no file.
File(html) == [exists |-> TRUE, html |-> html]
Missing == [exists |-> FALSE, html |-> <<>>]

\* os.path.exists(filepath)
exists(filepath) == disk[filepath].exists

\* The three pieces main() starts all_content with.  The words of the title
\* and of the introduction line are single opaque characters.
HEADER ==
    << <<"#", SP, "<title>", NL, NL>>,
       <<">", SP, "<intro>", NL, NL>>,
       <<"-", "-", "-", NL, NL>> >>

\* Variant: the existence test is dropped; a missing file reads as empty.
for_body_unguarded(acc, filename) ==
    LET content == IF exists(filename) THEN parse_html_file(filename) ELSE <<>>
    IN acc \o <<content, SEPARATOR>>

\* One iteration of the for loop over html_files.
for_body(acc, filename) ==
    IF exists(filename)
    THEN acc \o <<parse_html_file(filename), SEPARATOR>>
    ELSE acc

\* Number of newline characters a text starts with.
RECURSIVE NewlineRun(_)
NewlineRun(s) ==
    IF s # <<>> /\ Head(s) = NL THEN 1 + NewlineRun(Tail(s)) ELSE 0

RECURSIVE re_sub_newlines_lazy(_)
\* Variant: the quantifier is lazy (\n{3,}?), so a match is three newlines.
re_sub_newlines_lazy(s) ==
    IF s = <<>> THEN <<>>
    ELSE IF NewlineRun(s) >= 3
         THEN <<NL, NL>> \o re_sub_newlines_lazy(SubSeq(s, 4, Len(s)))
         ELSE <<Head(s)>> \o re_sub_newlines_lazy(Tail(s))

RECURSIVE re_sub_newlines(_)
\* re.sub(r'\n{3,}', '\n\n', s): leftmost matches, each the whole run
re_sub_newlines(s) ==
    IF s = <<>> THEN <<>>
    ELSE IF NewlineRun(s) >= 3
         THEN <<NL, NL>> \o re_sub_newlines(SubSeq(s, NewlineRun(s) + 1, Len(s)))
         ELSE <<Head(s)>> \o re_sub_newlines(Tail(s))

\* Documents a file of input_dir may hold.
DocA == <<Data(<<"A">>)>>
DocB == <<Data(<<"B">>)>>
DocTitle == <<StartTag("h1", <<>>), Data(TextSee), EndTag("h1")>>
DocEmpty == <<>>
\* A document that ends inside an h1, a strong, a blockquote, a ul and a span.
DocOpen ==
    <<StartTag("h1", <<>>), StartTag("strong", <<>>), StartTag("blockquote", <<>>),
      StartTag("ul", <<>>), StartTag("span", Style(StyleOpacity)), Data(TextSee)>>

FileDocs == {DocA, DocB, DocTitle, DocEmpty, DocOpen}

ParserIdle ==
    /\ parser = CriteriaHTMLParser
    /\ rawdata = <<>>
    /\ log = <<>>

\* main() up to the for loop, over any content of input_dir.
MainInit ==
    /\ ParserIdle
    /\ pc = "loop"
    /\ idx = 1
    /\ disk \in [1..NumFiles -> {File(d) : d \in FileDocs} \cup {Missing}]
    /\ all_content = HEADER
    /\ final_content = <<>>
    /\ output_file = None

\* for filename in html_files: ...
ForLoop ==
    /\ pc = "loop"
    /\ idx <= Len(html_files)
    /\ all_content' = for_body(all_content, html_files[idx])
    /\ parser' = IF exists(html_files[idx])
                 THEN feed(new_parser, disk[html_files[idx]].html)
                 ELSE parser
    /\ idx' = idx + 1
    /\ UNCHANGED <<pc, disk, final_content, output_file>>
    /\ UNCHANGED <<rawdata, log>>

\* final_content = ''.join(all_content)
Join ==
    /\ pc = "loop"
    /\ idx > Len(html_files)
    /\ final_content' = Flatten(all_content)
    /\ pc' = "norm"
    /\ UNCHANGED <<idx, disk, all_content, output_file>>
    /\ UNCHANGED parserVars

\* final_content = re.sub(...); f.write(final_content)
WriteOutput ==
    /\ pc = "norm"
    /\ final_content' = re_sub_newlines(final_content)
    /\ output_file' = final_content'
    /\ pc' = "done"
    /\ UNCHANGED <<idx, disk, all_content>>
    /\ UNCHANGED parserVars

MainNext == ForLoop \/ Join \/ WriteOutput

SpecMain == MainInit /\ [][MainNext]_vars

(***************************************************************************)
(* The join and the normalisation on their own, over every list of one     *)
(* piece of newlines and letters up to MaxLen characters.                  *)
(***************************************************************************)
RECURSIVE TextsUpTo(_)
TextsUpTo(n) ==
    IF n = 0 THEN {<<>>}
    ELSE LET shorter == TextsUpTo(n - 1)
         IN shorter \cup {Append(t, c) : t \in shorter, c \in {NL, "x"}}

NormInit ==
    /\ ParserIdle
    /\ pc = "loop"
    /\ idx = Len(html_files) + 1
    /\ disk = [i \in 1..NumFiles |-> Missing]
    /\ all_content \in {<<t>> : t \in TextsUpTo(MaxLen)}
    /\ final_content = <<>>
    /\ output_file = None

NormNext == Join \/ WriteOutput

SpecNorm == NormInit /\ [][NormNext]_vars

(***************************************************************************)
(* Vocabulary of the properties.                                           *)
(***************************************************************************)
Tokens(l) == [k \in 1..Len(l) |-> l[k].tok]

\* The step dispatches token tok.
Dispatched(tok) ==
    log' = Append(log, [tok |-> tok, at |-> Len(parser.content)])

Blank(text) == \A k \in 1..Len(text) : text[k] \in Whitespace

RECURSIVE WordsOf(_)
\* The maximal whitespace-free runs of a text, in order.
WordsOf(text) ==
    IF Blank(text) THEN <<>>
    ELSE LET b == CHOOSE j \in 1..Len(text) :
                      /\ text[j] \notin Whitespace
                      /\ \A m \in 1..(j - 1) : text[m] \in Whitespace
             e == CHOOSE j \in b..Len(text) :
                      /\ \A m \in b..j : text[m] \notin Whitespace
                      /\ (j = Len(text) \/ text[j + 1] \in Whitespace)
         IN <<SubSeq(text, b, e)>> \o WordsOf(SubSeq(text, e + 1, Len(text)))

RECURSIVE JoinWords(_)
JoinWords(words) ==
    IF words = <<>> THEN <<>>
    ELSE IF Len(words) = 1 THEN Head(words)
    ELSE Head(words) \o <<SP>> \o JoinWords(Tail(words))

\* T': T trimmed, internal whitespace runs collapsed to single spaces.
Collapsed(text) == JoinWords(WordsOf(text))

Spaces(n) == [k \in 1..n |-> SP]

\* The text appended to the Output Buffer since token number k was dispatched.
EmittedSince(k) ==
    Flatten(SubSeq(parser.content, log[k].at + 1, Len(parser.content)))

OpenH1 == StartTag("h1", <<>>)
OpenH3 == StartTag("h3", <<>>)
OpenQuote == StartTag("blockquote", <<>>)
OpenUl == StartTag("ul", <<>>)
OpenLiCircle == StartTag("li", Style(StyleCircle))

(***************************************************************************)
(* C1. A data event "a\nb" inside a blockquote is rendered line by line:   *)
(* <blockquote>a\nb</blockquote> from a fresh state yields the fragments   *)
(* "> a\n", "> b\n" and then the "\n" of the close event.                  *)
(***************************************************************************)
C1_BlockquotePerLine ==
    Tokens(log) = <<OpenQuote, Data(TextAB), EndTag("blockquote")>>
        => parser.content = << <<">", SP, "a", NL>>, <<">", SP, "b", NL>>, <<NL>> >>

(***************************************************************************)
(* C2. The separator "\n---\n\n" stands only between consecutive           *)
(* fragments, none after the last: the joined text is the header followed  *)
(* by the fragments of the processed files with the separator between      *)
(* them ("A\n---\n\nB" for the fragments "A" and "B").                     *)
(***************************************************************************)
Existing == SelectSeq(html_files, exists)

Fragments == [k \in 1..Len(Existing) |-> parse_html_file(Existing[k])]

RECURSIVE JoinBetween(_, _)
JoinBetween(pieces, sep) ==
    IF pieces = <<>> THEN <<>>
    ELSE IF Len(pieces) = 1 THEN Head(pieces)
    ELSE Head(pieces) \o sep \o JoinBetween(Tail(pieces), sep)

C2_SeparatorOnlyBetween ==
    pc = "norm" =>
        final_content = Flatten(HEADER) \o JoinBetween(Fragments, SEPARATOR)

(***************************************************************************)
(* C3. Whatever subset of html_files exists, the run completes and writes  *)
(* what a run over the list of the existing files alone writes: their      *)
(* fragments in list order and nothing for a missing file.                 *)
(***************************************************************************)
RECURSIVE PiecesOf(_)
\* What the loop collects over a list of files that all exist.
PiecesOf(files) ==
    IF files = <<>> THEN <<>>
    ELSE <<parse_html_file(Head(files)), SEPARATOR>> \o PiecesOf(Tail(files))

RunOver(files) == re_sub_newlines(Flatten(HEADER \o PiecesOf(files)))

C3_MissingInputSkipped ==
    /\ pc = "done" => output_file = RunOver(Existing)
    /\ pc = "loop" /\ idx > Len(html_files) => all_content = HEADER \o PiecesOf(Existing)
    /\ pc # "done" => ENABLED MainNext

C3_Witness ==
    /\ pc = "done"
    /\ disk[1] = Missing
    /\ disk[2] = File(DocA)
    /\ \A f \in 3..NumFiles : disk[f] = Missing
    /\ output_file = Flatten(HEADER) \o <<"A">> \o SEPARATOR

(***************************************************************************)
(* C4. The newline normalisation is idempotent: applied to what was        *)
(* written it changes nothing, and what was written holds no three         *)
(* consecutive newlines.                                                   *)
(***************************************************************************)
TripleNewline(s) ==
    \E k \in 1..(Len(s) - 2) : s[k] = NL /\ s[k + 1] = NL /\ s[k + 2] = NL

C4_NormalizationIdempotent ==
    pc = "done" =>
        /\ re_sub_newlines(output_file) = output_file
        /\ ~TripleNewline(output_file)

C4_Witness ==
    /\ pc = "done"
    /\ all_content = << <<"x", NL, NL, NL, NL, "x">> >>
    /\ output_file = <<"x", NL, NL, "x">>

(***************************************************************************)
(* C5. A data event whose text is empty after trimming changes neither the *)
(* Output Buffer nor any Tag Context field.                                *)
(***************************************************************************)
C5_BlankDataIsNoOp ==
    [][\A tok \in DataTokens :
           Blank(tok.data) /\ Dispatched(tok) => parser' = parser]_vars

C5_Witness ==
    /\ log # <<>>
    /\ log[Len(log)].tok = Data(TextBlank)
    /\ parser.in_header
    /\ parser.current_tag = "h1"
    /\ parser.content = <<>>

(***************************************************************************)
(* C6. Every non-empty data event is rendered by exactly one rule, the     *)
(* first that applies in the order h1 heading, h3 heading, strong,         *)
(* blockquote, small text, plain: one fragment is appended and nothing     *)
(* else changes.                                                           *)
(***************************************************************************)
RuleOf(self) ==
    LET a == self.in_header /\ self.current_tag = "h1"
        b == self.current_tag = "h3"
        c == self.in_strong
        d == self.in_blockquote
        e == self.small_text_level > 0
    IN IF a THEN "a"
       ELSE IF b THEN "b"
       ELSE IF c THEN "c"
       ELSE IF d THEN "d"
       ELSE IF e THEN "e"
       ELSE "f"

Rendered(rule, text) ==
    CASE rule = "a" -> <<"#", "#", SP>> \o text
      [] rule = "b" -> <<"#", "#", "#", SP>> \o text
      [] rule = "c" -> <<"*", "*">> \o text \o <<"*", "*">>
      [] rule = "d" -> <<">", SP>> \o text \o <<NL>>
      [] rule = "e" -> <<SP, "*", "(">> \o text \o <<")", "*">>
      [] OTHER -> text

C6_FormattingPrecedence ==
    [][\A tok \in DataTokens :
           ~Blank(tok.data) /\ Dispatched(tok) =>
               parser' = [parser EXCEPT !.content =
                   Append(@, Rendered(RuleOf(parser), Collapsed(tok.data)))]]_vars

C6_Witness ==
    /\ Tokens(log) = QuoteDoc
    /\ parser.content = << <<"*", "*", "s", "e", "e", "*", "*">>,
                           <<">", SP, "n", "o", "t", "e", NL>> >>

(***************************************************************************)
(* C7. From a fresh state, open h1, data T, close h1 (T not blank)         *)
(* produces exactly "## " + T' + "\n\n"; in_header is true between the     *)
(* open and the close and false afterwards.                                *)
(***************************************************************************)
C7_Heading2 ==
    \A T \in Texts :
        ~Blank(T) =>
            /\ Tokens(log) = <<OpenH1>> => parser.in_header
            /\ Tokens(log) = <<OpenH1, Data(T)>> => parser.in_header
            /\ Tokens(log) = <<OpenH1, Data(T), EndTag("h1")>> =>
                   /\ get_content(parser) =
                          <<"#", "#", SP>> \o Collapsed(T) \o <<NL, NL>>
                   /\ ~parser.in_header

C7_Witness ==
    /\ Tokens(log) = <<OpenH1, Data(TextRagged), EndTag("h1")>>
    /\ get_content(parser) = <<"#", "#", SP, "x", SP, "y", NL, NL>>
    /\ ~parser.in_header

(***************************************************************************)
(* C8. In any state, open h3, data T, close h3 (T not blank) appends       *)
(* exactly "### " + T' + "\n\n"; and every h3 close appends "\n\n",        *)
(* whatever in_header is and whether or not h3 text was emitted.           *)
(***************************************************************************)
C8_Heading3Sequence ==
    \A T \in Texts :
        LET n == Len(log)
        IN (/\ ~Blank(T)
            /\ n >= 3
            /\ Tokens(SubSeq(log, n - 2, n)) = <<OpenH3, Data(T), EndTag("h3")>>)
               => EmittedSince(n - 2) =
                      <<"#", "#", "#", SP>> \o Collapsed(T) \o <<NL, NL>>

C8_Heading3CloseStep ==
    Dispatched(EndTag("h3")) =>
        parser' = [parser EXCEPT !.content = Append(@, <<NL, NL>>),
                                 !.current_tag = None]

C8_Heading3 == []C8_Heading3Sequence /\ [][C8_Heading3CloseStep]_vars

C8_Witness ==
    /\ Tokens(log) = H3Doc
    /\ parser.in_header
    /\ parser.content = << <<"#", "#", "#", SP, "x", SP, "y">>, <<NL, NL>> >>

SeeNote == <<"s", "e", "e", SP, "*", "(", "n", "o", "t", "e", ")", "*">>

C10_SmallSpanScenario ==
    \A style \in {StyleOpacity, StyleFont} :
        /\ Tokens(log) = SubSeq(SpanDoc(style), 1, 4) =>
               /\ get_content(parser) = SeeNote
               /\ parser.small_text_level = 0
        /\ Tokens(log) = SpanDoc(style) =>
               get_content(parser) = SeeNote \o <<"s", "e", "e">>

C10_SmallTextStep ==
    \A tok \in DataTokens :
        (/\ ~Blank(tok.data)
         /\ Dispatched(tok)
         /\ parser.small_text_level > 0
         /\ ~(parser.in_header /\ parser.current_tag = "h1")
         /\ parser.current_tag # "h3"
         /\ ~parser.in_strong
         /\ ~parser.in_blockquote)
            => parser'.content =
                   Append(parser.content,
                          <<SP, "*", "(">> \o Collapsed(tok.data) \o <<")", "*">>)

C10_SmallText == []C10_SmallSpanScenario /\ [][C10_SmallTextStep]_vars

C10_Witness ==
    /\ Tokens(log) = SubSeq(SpanDoc(StyleOpacity), 1, 4)
    /\ get_content(parser) = SeeNote
    /\ parser.small_text_level = 0

(***************************************************************************)
(* C11. list_level is an integer >= 0 in every state reachable by any      *)
(* sequence of open-tag, close-tag and data events, a ul close with no     *)
(* matching ul open included.                                              *)
(***************************************************************************)
C11_ListLevelNonNegative ==
    parser.list_level \in Nat

(***************************************************************************)
(* C12. A close-tag event for h1, h3, blockquote, ul, li, p or span with   *)
(* no matching currently-open element leaves the Output Buffer and the     *)
(* flags and counters of the Tag Context unchanged.                        *)
(***************************************************************************)
RECURSIVE OpenCount(_, _)
\* How many elements named tag the dispatched tokens leave open.
OpenCount(tokens, tag) ==
    IF tokens = <<>> THEN 0
    ELSE LET n == OpenCount(SubSeq(tokens, 1, Len(tokens) - 1), tag)
             last == tokens[Len(tokens)]
         IN IF last.kind = "start" /\ last.tag = tag THEN n + 1
            ELSE IF last.kind = "end" /\ last.tag = tag /\ n > 0 THEN n - 1
            ELSE n

SameFlagsAndCounters(p, q) ==
    /\ p.in_header = q.in_header
    /\ p.in_title = q.in_title
    /\ p.in_strong = q.in_strong
    /\ p.in_blockquote = q.in_blockquote
    /\ p.in_list = q.in_list
    /\ p.list_level = q.list_level
    /\ p.small_text_level = q.small_text_level

C12_UnexpectedCloseIgnored ==
    [][\A tag \in {"h1", "h3", "blockquote", "ul", "li", "p", "span"} :
           (OpenCount(Tokens(log), tag) = 0 /\ Dispatched(EndTag(tag))) =>
               /\ parser'.content = parser.content
               /\ SameFlagsAndCounters(parser', parser)]_vars

(***************************************************************************)
(* C13. In every state reached by tokens whose span tags are properly      *)
(* nested, un-styled spans inside styled ones included, small_text_level   *)
(* is the number of currently-open spans whose style matched the           *)
(* small-font or reduced-opacity pattern; it is never negative.            *)
(***************************************************************************)
IsSmallSpanOpen(tok) ==
    tok \in {StartTag("span", Style(StyleFont)), StartTag("span", Style(StyleOpacity))}

RECURSIVE OpenSpans(_)
\* The open span elements, outermost first: TRUE for a styled one.
OpenSpans(tokens) ==
    IF tokens = <<>> THEN <<>>
    ELSE LET before == OpenSpans(SubSeq(tokens, 1, Len(tokens) - 1))
             last == tokens[Len(tokens)]
         IN IF last.kind = "start" /\ last.tag = "span"
            THEN Append(before, IsSmallSpanOpen(last))
            ELSE IF last.kind = "end" /\ last.tag = "span" /\ before # <<>>
            THEN SubSeq(before, 1, Len(before) - 1)
            ELSE before

\* No span close arrives while no span is open.
SpansProperlyNested(tokens) ==
    \A k \in 1..Len(tokens) :
        (tokens[k].kind = "end" /\ tokens[k].tag = "span")
            => OpenSpans(SubSeq(tokens, 1, k - 1)) # <<>>

C13_SmallTextDepthCountsOpenSpans ==
    SpansProperlyNested(Tokens(log)) =>
        /\ parser.small_text_level =
               Cardinality({k \in 1..Len(OpenSpans(Tokens(log))) :
                                OpenSpans(Tokens(log))[k]})
        /\ parser.small_text_level >= 0

(***************************************************************************)
(* C14. The Output Buffer is append-only: after every event the buffer     *)
(* before the event is a prefix of the buffer after it, and get_content    *)
(* is the fragments laid end to end in append order, nothing between them. *)
(***************************************************************************)
IsPrefix(a, b) == Len(a) <= Len(b) /\ SubSeq(b, 1, Len(a)) = a

RECURSIVE OffsetOf(_, _)
\* Number of characters in the first k fragments.
OffsetOf(fragments, k) ==
    IF k = 0 THEN 0 ELSE OffsetOf(fragments, k - 1) + Len(fragments[k])

LaidEndToEnd(fragments, text) ==
    /\ Len(text) = OffsetOf(fragments, Len(fragments))
    /\ \A k \in 1..Len(fragments) :
           SubSeq(text, OffsetOf(fragments, k - 1) + 1, OffsetOf(fragments, k))
               = fragments[k]

C14_ContentIsFragmentsInOrder ==
    LaidEndToEnd(parser.content, get_content(parser))

C14_BufferGrowsAtEnd ==
    IsPrefix(parser.content, parser'.content)

C14_AppendOnly == []C14_ContentIsFragmentsInOrder /\ [][C14_BufferGrowsAtEnd]_vars

C14_Witness ==
    /\ Tokens(log) = <<StartTag("li", <<>>), Data(TextSee), EndTag("li")>>
    /\ parser.content = << <<"-", SP>>, <<"s", "e", "e">>, <<NL>> >>
    /\ get_content(parser) = <<"-", SP, "s", "e", "e", NL>>

(***************************************************************************)
(* C15. A ul close decrements list_level by one and appends a single "\n"  *)
(* only when the resulting depth is exactly 0; the close of a nested list  *)
(* (resulting depth >= 1) appends nothing.                                 *)
(***************************************************************************)
C15_UlClose ==
    [][Dispatched(EndTag("ul")) =>
           /\ parser'.list_level = parser.list_level - 1
           /\ parser'.content =
                  IF parser.list_level - 1 = 0
                  THEN Append(parser.content, <<NL>>)
                  ELSE parser.content]_vars

C15_Witness ==
    /\ Tokens(log) = ListDoc
    /\ log[9].at = log[8].at
    /\ parser.list_level = 0
    /\ parser.content =
           << <<"-", SP>>, <<"s", "e", "e">>,
              <<SP, SP, SP, SP, "-", SP>>, <<"n", "o", "t", "e">>, <<NL>>,
              <<NL>>, <<NL>> >>

(***************************************************************************)
(* C16. A p close appends exactly one "\n" when in_blockquote is false and *)
(* nothing when it is true; either way it changes no Tag Context field     *)
(* other than clearing current_tag.                                        *)
(***************************************************************************)
C16_ParagraphClose ==
    [][Dispatched(EndTag("p")) =>
           parser' = [parser EXCEPT
               !.content = IF parser.in_blockquote THEN @ ELSE Append(@, <<NL>>),
               !.current_tag = None]]_vars

C16_Witness ==
    /\ Tokens(log) = <<OpenQuote, Data(TextSee), EndTag("p")>>
    /\ log[3].at = Len(parser.content)
    /\ parser.in_blockquote
    /\ parser.current_tag = None
    /\ parser.content = << <<">", SP, "s", "e", "e", NL>> >>

(***************************************************************************)
(* C17. No cross-document state: the fragment of a document depends only   *)
(* on that document's own tokens, whatever the documents before it were,   *)
(* documents that end with unclosed h1, strong, blockquote, ul or span     *)
(* elements included.                                                      *)
(***************************************************************************)
\* The rendering of a document on its own.
Alone(doc) == Flatten(feed(CriteriaHTMLParser, doc).content)

RECURSIVE CollectedUpTo(_)
\* The pieces of the first k files, each existing file rendered on its own.
CollectedUpTo(k) ==
    IF k = 0 THEN <<>>
    ELSE CollectedUpTo(k - 1)
         \o (IF disk[k].exists THEN <<Alone(disk[k].html), SEPARATOR>> ELSE <<>>)

C17_NoCrossDocumentState ==
    all_content = HEADER \o CollectedUpTo(idx - 1)

C17_Witness ==
    /\ pc = "loop"
    /\ idx = 3
    /\ disk[1] = File(DocOpen)
    /\ disk[2] = File(DocA)
    /\ all_content = HEADER \o << <<"*", "*", "s", "e", "e", "*", "*">>, SEPARATOR,
                                  <<"A">>, SEPARATOR >>

(***************************************************************************)
(* C18. The "in list" hint is encoded by the depth: in every state         *)
(* reachable by any sequence of events, in_list is true exactly when       *)
(* list_level > 0.                                                         *)
(***************************************************************************)
C18_InListIffDepthPositive ==
    parser.in_list <=> parser.list_level > 0

(***************************************************************************)
(* C19. In every reachable state current_tag = "h1" implies in_header; so  *)
(* a non-blank data event is emitted with the "## " prefix exactly when    *)
(* the most recent tag event before it was the open of an h1: text after   *)
(* any other open tag or any close tag inside a still-open h1 is not a     *)
(* heading.                                                                *)
(***************************************************************************)
\* The most recent tag token is the open of an h1.
LastTagIsH1Open(tokens) ==
    \E k \in 1..Len(tokens) :
        /\ tokens[k].kind = "start"
        /\ tokens[k].tag = "h1"
        /\ \A m \in (k + 1)..Len(tokens) : tokens[m].kind = "data"

C19_CurrentH1ImpliesInHeader ==
    parser.current_tag = "h1" => parser.in_header

C19_HeadingPrefixStep ==
    \A tok \in DataTokens :
        (~Blank(tok.data) /\ Dispatched(tok)) =>
            LET new == SubSeq(parser'.content, Len(parser.content) + 1,
                              Len(parser'.content))
            IN (new # <<>> /\ IsPrefix(<<"#", "#", SP>>, Head(new)))
                   <=> LastTagIsH1Open(Tokens(log))

C19_HeadingOnlyRightAfterH1Open ==
    []C19_CurrentH1ImpliesInHeader /\ [][C19_HeadingPrefixStep]_vars

C19_Witness ==
    /\ Tokens(log) = <<OpenH1, StartTag("strong", <<>>), Data(TextSee)>>
    /\ parser.in_header
    /\ parser.content = << <<"*", "*", "s", "e", "e", "*", "*">> >>

====
